---- MODULE Spec2Model ----
(***************************************************************************)
(* Model of emu/src/cpu/arm/alu_instruction.rs: the barrel shifter          *)
(* (shift), the ALU opcode classifier (ArmModeAluInstr::from / kind) and    *)
(* the PSR-transfer decoder (PsrOpKind::from).                              *)
(*                                                                          *)
(* A 32-bit (or 64-bit) machine word is represented by the set of the       *)
(* positions of its 1 bits, so that no arithmetic exceeds TLC's integers    *)
(* and every shift keeps its exact width.  Small bit fields and shift       *)
(* amounts are natural numbers.                                             *)
(***************************************************************************)
EXTENDS Integers, FiniteSets, Sequences, TLC

VARIABLES pc, fn, kind, shift_amount, rm, carry, res, res_flip,
          alu_op_code, instr, ai_kind, op_code, psr

vars == <<pc, fn, kind, shift_amount, rm, carry, res, res_flip,
          alu_op_code, instr, ai_kind, op_code, psr>>

\* ---------------------------------------------------------------- bounds
MaxAmount == 70
MaxOpcode == 17

\* ------------------------------------------------------- words and bits
U32Bits == 0..31
U64Bits == 0..63

\* crate::bitwise::Bits::get_bit
get_bit(x, bit_idx) == bit_idx \in x

\* crate::bitwise::Bits::get_bits(lo..=hi): the field as a number
RECURSIVE get_bits(_, _, _)
get_bits(x, lo, hi) ==
    IF hi < lo THEN 0
    ELSE (IF lo \in x THEN 1 ELSE 0) + 2 * get_bits(x, lo + 1, hi)

\* `as u64`: zero extension keeps the set of 1 bits
as_u64(x) == x \cap U64Bits
\* `as u32`: truncation to the low 32 bits
as_u32(x) == x \cap U32Bits
\* u64 << n and u64 >> n (n < 64)
shl64(x, n) == {i + n : i \in x} \cap U64Bits
shr64(x, n) == {i - n : i \in x} \cap U64Bits
\* u32 >> n (n < 32)
shr32(x, n) == {i - n : i \in x} \cap U32Bits
\* u32 << n (n < 32)
shl32(x, n) == {i + n : i \in x} \cap U32Bits
\* (x as i32) >> n, n < 32: the sign bit fills the vacated positions
sar32(x, n) == shr32(x, n) \cup (IF 31 \in x THEN (32 - n)..31 ELSE {})
\* u32::rotate_right(n)
rotate_right(x, n) == {(i + 32 - (n % 32)) % 32 : i \in x}

\* ------------------------------------------------------ result records
NoBit == -1
\* ArithmeticOpResult::default(); bit_idx records the index handed to
\* get_bit by the arm that built the value (NoBit when none was read)
Default == [result |-> {}, carry |-> FALSE, overflow |-> FALSE,
            sign |-> FALSE, zero |-> FALSE, bit_idx |-> NoBit]
\* unreachable!() and a failed try_into().unwrap()
Unreachable == [panic |-> "unreachable"]
UnwrapFailed == [panic |-> "unwrap"]
IsPanic(r) == "panic" \in DOMAIN r

\* carry: x.get_bit(n.try_into().unwrap()) on top of a partly built result
WithCarryBit(base, x, n) ==
    IF n \notin 0..255 THEN UnwrapFailed
    ELSE [base EXCEPT !.carry = get_bit(x, n), !.bit_idx = n]

\* ---------------------------------------------------------------- shift
shift_lsl_wrap(amount, value, c) ==
    IF amount = 0 THEN [Default EXCEPT !.result = value, !.carry = c]
    ELSE IF amount \in 1..32
      THEN WithCarryBit([Default EXCEPT !.result = shl32(value, amount % 32)],
                        value, 32 - amount)
      ELSE Default

shift_lsl(amount, value, c) ==
    IF amount = 0 THEN [Default EXCEPT !.result = value, !.carry = c]
    ELSE IF amount \in 1..32
      THEN LET rm64 == as_u64(value)
               result == as_u32(shl64(rm64, amount))
           IN  WithCarryBit([Default EXCEPT !.result = result],
                            rm64, 32 - amount)
      ELSE [Default EXCEPT !.carry = FALSE]

shift_lsr_keep_carry(amount, value, c) ==
    IF amount = 0 THEN [Default EXCEPT !.result = {}, !.carry = c]
    ELSE IF amount \in 1..32
      THEN WithCarryBit([Default EXCEPT
                            !.result = as_u32(shr64(as_u64(value), amount))],
                        as_u64(value), amount - 1)
      ELSE Default

shift_lsr_noop0(amount, value, c) ==
    IF amount = 0
      THEN [Default EXCEPT !.result = value, !.carry = get_bit(value, 31),
                           !.bit_idx = 31]
    ELSE IF amount \in 1..32
      THEN WithCarryBit([Default EXCEPT
                            !.result = as_u32(shr64(as_u64(value), amount))],
                        as_u64(value), amount - 1)
      ELSE Default

shift_lsr(amount, value, c) ==
    IF amount = 0
      THEN WithCarryBit([Default EXCEPT !.result = {}], value, 31)
    ELSE IF amount \in 1..32
      THEN LET rm64 == as_u64(value)
               result == as_u32(shr64(rm64, amount))
           IN  WithCarryBit([Default EXCEPT !.result = result],
                            rm64, amount - 1)
      ELSE [Default EXCEPT !.result = {}, !.carry = FALSE]

shift_asr_logical(amount, value, c) ==
    IF amount \in 1..31
      THEN WithCarryBit([Default EXCEPT !.result = shr32(value, amount)],
                        value, amount - 1)
      ELSE WithCarryBit([Default EXCEPT !.result = shr32(value, 31)],
                        value, 31)

shift_asr(amount, value, c) ==
    IF amount \in 1..31
      THEN WithCarryBit([Default EXCEPT !.result = sar32(value, amount)],
                        value, amount - 1)
      ELSE WithCarryBit([Default EXCEPT !.result = sar32(value, 31)],
                        value, 31)

\* the reduction of the ROR amount, new_shift_amount
ror_reduce_rrx(amount) ==
    IF amount > 32 THEN amount % 32 ELSE amount

ror_reduce_once(amount) ==
    IF amount > 32 THEN amount - 32 ELSE amount

ror_new_shift_amount(amount) ==
    IF amount > 32
      THEN (IF amount % 32 = 0 THEN 32 ELSE amount % 32)
      ELSE amount

shift_ror(amount, value, c) ==
    LET new_shift_amount == ror_new_shift_amount(amount) IN
    IF new_shift_amount = 0
      THEN LET old_carry == IF c THEN {0} ELSE {}
           IN  WithCarryBit(
                   [Default EXCEPT
                       !.result = shr32(value, 1) \cup shl32(old_carry, 31)],
                   value, 0)
    ELSE IF new_shift_amount \in 1..31
      THEN WithCarryBit(
               [Default EXCEPT !.result = rotate_right(value, new_shift_amount)],
               value, new_shift_amount - 1)
    ELSE IF new_shift_amount = 32
      THEN WithCarryBit([Default EXCEPT !.result = value], value, 31)
    ELSE Unreachable

shift(k, amount, value, c) ==
    CASE k = "Lsl" -> shift_lsl(amount, value, c)
      [] k = "Lsr" -> shift_lsr(amount, value, c)
      [] k = "Asr" -> shift_asr(amount, value, c)
      [] k = "Ror" -> shift_ror(amount, value, c)

\* ------------------------------------------------------ ArmModeAluInstr
Mnemonics == <<"And", "Eor", "Sub", "Rsb", "Add", "Adc", "Sbc", "Rsc",
               "Tst", "Teq", "Cmp", "Cmn", "Orr", "Mov", "Bic", "Mvn">>

\* the enum's discriminant: And = 0x0 .. Mvn = 0xF
Discriminant(m) == CHOOSE d \in 0..15 : Mnemonics[d + 1] = m

ArmModeAluInstr_from_teq(code) ==
    CASE code = 0 -> "And" [] code = 1 -> "Eor" [] code = 2 -> "Sub"
      [] code = 3 -> "Rsb" [] code = 4 -> "Add" [] code = 5 -> "Adc"
      [] code = 6 -> "Sbc" [] code = 7 -> "Rsc" [] code = 8 -> "Tst"
      [] code = 9 -> "Tst" [] code = 10 -> "Cmp" [] code = 11 -> "Cmn"
      [] code = 12 -> "Orr" [] code = 13 -> "Mov" [] code = 14 -> "Bic"
      [] code = 15 -> "Mvn" [] OTHER -> "unreachable"

ArmModeAluInstr_from(code) ==
    CASE code = 0 -> "And" [] code = 1 -> "Eor" [] code = 2 -> "Sub"
      [] code = 3 -> "Rsb" [] code = 4 -> "Add" [] code = 5 -> "Adc"
      [] code = 6 -> "Sbc" [] code = 7 -> "Rsc" [] code = 8 -> "Tst"
      [] code = 9 -> "Teq" [] code = 10 -> "Cmp" [] code = 11 -> "Cmn"
      [] code = 12 -> "Orr" [] code = 13 -> "Mov" [] code = 14 -> "Bic"
      [] code = 15 -> "Mvn" [] OTHER -> "unreachable"

ArmModeAluInstr_kind(m) ==
    IF m \in {"And", "Eor", "Tst", "Teq", "Orr", "Mov", "Bic", "Mvn"}
      THEN "Logical"
      ELSE "Arithmetic"

\* ------------------------------------------------------------ PsrOpKind
IsMrs(w) ==
    /\ get_bits(w, 23, 27) = 2
    /\ get_bits(w, 16, 21) = 15
    /\ get_bits(w, 0, 11) = 0

IsMsr(w) ==
    /\ get_bits(w, 23, 27) = 2
    /\ get_bits(w, 12, 21) = 671
    /\ get_bits(w, 4, 11) = 0

IsMsrFlg_loose(w) ==
    /\ get_bits(w, 26, 27) = 0
    /\ get_bits(w, 23, 24) = 2

IsMsrFlg(w) ==
    /\ get_bits(w, 26, 27) = 0
    /\ get_bits(w, 23, 24) = 2
    /\ get_bits(w, 12, 21) = 655

MrsArm(w) == [tag |-> "Mrs", destination_register |-> get_bits(w, 12, 15)]

MsrArm(w) == [tag |-> "Msr", source_register |-> get_bits(w, 0, 3)]

MsrFlgArm_norot(w) ==
    [tag |-> "MsrFlg",
     operand |->
        IF get_bit(w, 25)
          THEN [tag |-> "Immediate", base |-> get_bits(w, 0, 7),
                shift |-> get_bits(w, 8, 11)]
          ELSE [tag |-> "Register",
                shift_op |-> [tag |-> "Immediate", value |-> 0],
                shift_kind |-> "Lsl",
                register |-> get_bits(w, 0, 3)]]

MsrFlgArm(w) ==
    [tag |-> "MsrFlg",
     operand |->
        IF get_bit(w, 25)
          THEN [tag |-> "Immediate", base |-> get_bits(w, 0, 7),
                shift |-> get_bits(w, 8, 11) * 2]
          ELSE [tag |-> "Register",
                shift_op |-> [tag |-> "Immediate", value |-> 0],
                shift_kind |-> "Lsl",
                register |-> get_bits(w, 0, 3)]]

PsrOpKind_from_default(w) ==
    IF IsMrs(w) THEN MrsArm(w)
    ELSE IF IsMsr(w) THEN MsrArm(w)
    ELSE MsrFlgArm(w)

PsrOpKind_from(w) ==
    IF IsMrs(w) THEN MrsArm(w)
    ELSE IF IsMsr(w) THEN MsrArm(w)
    ELSE IF IsMsrFlg(w) THEN MsrFlgArm(w)
    ELSE Unreachable

\* --------------------------------------------------------------- inputs
ShiftKinds == {"Lsl", "Lsr", "Asr", "Ror"}

\* amounts around every regime boundary, and u32 amounts far above them
Amounts == (0..MaxAmount) \cup {255, 256, 257, 287, 288, 2147483616, 2147483647}

\* register values: every single bit, every single hole, and mixed patterns
Values ==
    {{i} : i \in U32Bits} \cup {U32Bits \ {i} : i \in U32Bits}
    \cup { {}, U32Bits, {0, 31}, 0..15, 16..31, 1..30,
           {i \in U32Bits : i % 2 = 0}, {i \in U32Bits : i % 2 = 1},
           {3, 4, 5, 6, 9, 10, 12, 14, 18, 20, 21, 25, 28} }

Opcodes == 0..MaxOpcode

\* the bits lo.. of the number n
Field(n, lo) == {lo + i : i \in {j \in 0..11 : (n \div (2 ^ j)) % 2 = 1}}

\* instruction words assembled from their fields
Words ==
    { Field(cnd, 28) \cup Field(hi, 26) \cup Field(imm, 25) \cup Field(op, 23)
        \cup Field(p, 22) \cup Field(a, 16) \cup Field(b, 12)
        \cup Field(c, 4) \cup Field(d, 0) :
        cnd \in {14}, hi \in {0, 1}, imm \in {0, 1}, op \in {1, 2},
        p \in {0, 1}, a \in {15, 40, 41, 47}, b \in {0, 3, 15},
        c \in {0, 1, 6, 16, 255}, d \in {0, 5, 15} }

\* ----------------------------------------------------------- the machine
NoRes == [none |-> TRUE]

InitShift ==
    /\ fn = "shift"
    /\ kind \in ShiftKinds /\ shift_amount \in Amounts
    /\ rm \in Values /\ carry \in BOOLEAN
    /\ alu_op_code = 0 /\ op_code = {}

InitAlu ==
    /\ fn = "alu"
    /\ alu_op_code \in Opcodes
    /\ kind = "Lsl" /\ shift_amount = 0 /\ rm = {} /\ carry = FALSE
    /\ op_code = {}

InitPsr ==
    /\ fn = "psr"
    /\ op_code \in Words
    /\ kind = "Lsl" /\ shift_amount = 0 /\ rm = {} /\ carry = FALSE
    /\ alu_op_code = 0

Init ==
    /\ pc = "call"
    /\ res = NoRes /\ res_flip = NoRes
    /\ instr = "none" /\ ai_kind = "none" /\ psr = NoRes
    /\ (InitShift \/ InitAlu \/ InitPsr)

\* shift(kind, shift_amount, rm, carry)
Shift ==
    /\ pc = "call" /\ fn = "shift"
    /\ res' = shift(kind, shift_amount, rm, carry)
    /\ pc' = "returned"
    /\ UNCHANGED <<fn, kind, shift_amount, rm, carry, res_flip,
                   alu_op_code, instr, ai_kind, op_code, psr>>

\* the same call once more with the other carry flag
ShiftOtherCarry ==
    /\ pc = "returned" /\ fn = "shift"
    /\ res_flip' = shift(kind, shift_amount, rm, ~carry)
    /\ pc' = "compared"
    /\ UNCHANGED <<fn, kind, shift_amount, rm, carry, res,
                   alu_op_code, instr, ai_kind, op_code, psr>>

\* ArmModeAluInstr::from(alu_op_code)
From ==
    /\ pc = "call" /\ fn = "alu"
    /\ instr' = ArmModeAluInstr_from(alu_op_code)
    /\ pc' = IF instr' = "unreachable" THEN "panicked" ELSE "decoded"
    /\ UNCHANGED <<fn, kind, shift_amount, rm, carry, res, res_flip,
                   alu_op_code, ai_kind, op_code, psr>>

\* .kind() on the decoded instruction
Kind ==
    /\ pc = "decoded" /\ fn = "alu"
    /\ ai_kind' = ArmModeAluInstr_kind(instr)
    /\ pc' = "returned"
    /\ UNCHANGED <<fn, kind, shift_amount, rm, carry, res, res_flip,
                   alu_op_code, instr, op_code, psr>>

\* PsrOpKind::from(op_code)
PsrFrom ==
    /\ pc = "call" /\ fn = "psr"
    /\ psr' = PsrOpKind_from(op_code)
    /\ pc' = IF IsPanic(psr') THEN "panicked" ELSE "returned"
    /\ UNCHANGED <<fn, kind, shift_amount, rm, carry, res, res_flip,
                   alu_op_code, instr, ai_kind, op_code>>

Next == Shift \/ ShiftOtherCarry \/ From \/ Kind \/ PsrFrom

Spec == Init /\ [][Next]_vars

\* ======================================================== properties
ShiftDone == fn = "shift" /\ pc \in {"returned", "compared"}
PsrDone == fn = "psr" /\ pc \in {"returned", "panicked"}
Bit(x, i) == i \in x

\* the number whose binary digits are the bits lo..hi of w
FieldVal(w, lo, hi) ==
    CHOOSE n \in 0..(2 ^ (hi - lo + 1) - 1) :
        \A i \in 0..(hi - lo) : ((n \div (2 ^ i)) % 2 = 1) <=> Bit(w, lo + i)

\* the three PSR bit patterns, as sets of bits that must be 1 and 0
Matches(w, ones, zeros) == ones \subseteq w /\ zeros \cap w = {}
PatMrs(w) == Matches(w, {24} \cup 16..19, {23, 25, 26, 27, 20, 21} \cup 0..11)
PatMsr(w) == Matches(w, {24, 21, 19} \cup 12..16,
                        {23, 25, 26, 27, 20, 18, 17} \cup 4..11)
PatMsrFlg(w) == Matches(w, {24, 21, 19} \cup 12..15, {23, 26, 27, 20, 18, 17, 16})

\* C1 (as stated): a word that satisfies none of the three PSR patterns is
\* decoded to the ordinary value "not a PSR transfer", never to a fatal
\* failure.
C1_AsStated ==
    (PsrDone /\ ~PatMrs(op_code) /\ ~PatMsr(op_code) /\ ~PatMsrFlg(op_code))
        => (~IsPanic(psr) /\ psr = [tag |-> "NotPsr"])

\* C1 (amended): the decode ends in the unreachable!() failure exactly on
\* the words that satisfy none of the three PSR patterns; every word that
\* satisfies one of them is decoded to a Mrs, Msr or MsrFlg value.
C1_PanicsExactlyOnNonPsr ==
    PsrDone =>
        /\ (psr = Unreachable) <=>
              (~PatMrs(op_code) /\ ~PatMsr(op_code) /\ ~PatMsrFlg(op_code))
        /\ (psr # Unreachable) => psr.tag \in {"Mrs", "Msr", "MsrFlg"}

C1_Witness ==
    /\ PsrDone /\ psr = Unreachable /\ pc = "panicked"
    /\ ~PatMrs(op_code) /\ ~PatMsr(op_code) /\ ~PatMsrFlg(op_code)

\* the shift kinds in the order of their 2-bit codes
ShiftKindCode == <<"Lsl", "Lsr", "Asr", "Ror">>

\* C2 (as stated): for a word matching the MsrFlg pattern the decoded
\* operand is the Second-Operand Decoder's result for that word with bit 25
\* as the immediate flag: Immediate{base = bits 0-7, shift = 2 * bits
\* 8-11} when bit 25 is set, else Register{register = bits 0-3, shift kind =
\* bits 5-6, shift operator = Immediate(bits 7-11) or Register(bits 8-11)
\* by bit 4}.
C2_AsStated ==
    (PsrDone /\ PatMsrFlg(op_code)) =>
        /\ psr.tag = "MsrFlg"
        /\ Bit(op_code, 25) =>
             psr.operand = [tag |-> "Immediate",
                            base |-> FieldVal(op_code, 0, 7),
                            shift |-> 2 * FieldVal(op_code, 8, 11)]
        /\ ~Bit(op_code, 25) =>
             psr.operand =
                 [tag |-> "Register",
                  shift_op |->
                      IF Bit(op_code, 4)
                        THEN [tag |-> "Register",
                              value |-> FieldVal(op_code, 8, 11)]
                        ELSE [tag |-> "Immediate",
                              value |-> FieldVal(op_code, 7, 11)],
                  shift_kind |-> ShiftKindCode[FieldVal(op_code, 5, 6) + 1],
                  register |-> FieldVal(op_code, 0, 3)]

\* C2 (amended): for a word matching the MsrFlg pattern the operand is
\* Immediate{base = bits 0-7, shift = 2 * bits 8-11} when bit 25 is set, and
\* Register{register = bits 0-3, shift kind = LSL, shift operator =
\* Immediate(0)} when bit 25 is clear, whatever bits 4-11 hold.
C2_MsrFlgOperand ==
    (PsrDone /\ PatMsrFlg(op_code)) =>
        /\ psr.tag = "MsrFlg"
        /\ Bit(op_code, 25) =>
             psr.operand = [tag |-> "Immediate",
                            base |-> FieldVal(op_code, 0, 7),
                            shift |-> 2 * FieldVal(op_code, 8, 11)]
        /\ ~Bit(op_code, 25) =>
             psr.operand = [tag |-> "Register",
                            shift_op |-> [tag |-> "Immediate", value |-> 0],
                            shift_kind |-> "Lsl",
                            register |-> FieldVal(op_code, 0, 3)]

C2_Witness ==
    /\ PsrDone /\ PatMsrFlg(op_code) /\ ~Bit(op_code, 25)
    /\ FieldVal(op_code, 4, 11) = 6
    /\ psr.tag = "MsrFlg" /\ psr.operand.shift_kind = "Lsl"
    /\ psr.operand.register = 5

C2_WitnessImmediate ==
    /\ PsrDone /\ PatMsrFlg(op_code) /\ Bit(op_code, 25)
    /\ psr.tag = "MsrFlg" /\ psr.operand.tag = "Immediate"
    /\ psr.operand.shift = 30 /\ psr.operand.base = 255

\* the decode with the three predicates tried in another order
PsrArm(name, w) ==
    CASE name = "Mrs" -> MrsArm(w)
      [] name = "Msr" -> MsrArm(w)
      [] name = "MsrFlg" -> MsrFlgArm(w)
PsrPred(name, w) ==
    CASE name = "Mrs" -> IsMrs(w)
      [] name = "Msr" -> IsMsr(w)
      [] name = "MsrFlg" -> IsMsrFlg(w)
FirstMatch(order, w) ==
    IF PsrPred(order[1], w) THEN PsrArm(order[1], w)
    ELSE IF PsrPred(order[2], w) THEN PsrArm(order[2], w)
    ELSE IF PsrPred(order[3], w) THEN PsrArm(order[3], w)
    ELSE Unreachable
Orders == {o \in [1..3 -> {"Mrs", "Msr", "MsrFlg"}] :
              \A i, j \in 1..3 : o[i] = o[j] => i = j}

\* C3: no word satisfies more than one of the three PSR predicates, and the
\* decode's result is the same in whatever order the predicates are tried.
C3_PredicatesExclusive ==
    PsrDone =>
        /\ ~(IsMrs(op_code) /\ IsMsr(op_code))
        /\ ~(IsMrs(op_code) /\ IsMsrFlg(op_code))
        /\ ~(IsMsr(op_code) /\ IsMsrFlg(op_code))
        /\ \A o \in Orders : FirstMatch(o, op_code) = psr

C3_Witness ==
    /\ PsrDone /\ IsMrs(op_code) /\ psr.tag = "Mrs"
    /\ psr.destination_register = 3
    /\ FirstMatch(<<"MsrFlg", "Msr", "Mrs">>, op_code) = psr

\* rotate right, bit by bit, for an amount in 0..32 (0 is RRX)
RorResultOk(n, v, c, r) ==
    IF n = 0
      THEN /\ \A j \in 0..30 : Bit(r.result, j) <=> Bit(v, j + 1)
           /\ Bit(r.result, 31) <=> c
           /\ r.carry <=> Bit(v, 0)
    ELSE IF n \in 1..31
      THEN /\ \A j \in 0..31 : Bit(r.result, j) <=> Bit(v, (j + n) % 32)
           /\ r.carry <=> Bit(v, n - 1)
    ELSE /\ n = 32 /\ r.result = v /\ (r.carry <=> Bit(v, 31))

\* C4: ROR by 0 is RRX; by 1..31 a rotate right with carry_out = bit
\* (amount-1); by 32 the value itself with carry_out = bit 31; by more than
\* 32 the outcome of ROR by (amount mod 32), a reduction to 0 counting as 32.
C4_Ror ==
    (ShiftDone /\ kind = "Ror") =>
        /\ ~IsPanic(res)
        /\ res.result \subseteq U32Bits
        /\ RorResultOk(IF shift_amount <= 32 THEN shift_amount
                       ELSE IF shift_amount % 32 = 0 THEN 32
                       ELSE shift_amount % 32,
                       rm, carry, res)

C4_Witness ==
    /\ ShiftDone /\ kind = "Ror" /\ shift_amount = 64 /\ rm = {31} /\ carry
    /\ res.result = {31} /\ res.carry

C4_WitnessRrx ==
    /\ ShiftDone /\ kind = "Ror" /\ shift_amount = 0 /\ rm = {0} /\ carry
    /\ res.result = {31} /\ res.carry

\* C5: LSL by 0 gives the value and carry_in; by 1..32 the value times
\* 2^amount modulo 2^32 with carry_out = bit (32-amount); by more than 32
\* result 0 and carry_out false.
C5_Lsl ==
    (ShiftDone /\ kind = "Lsl") =>
        /\ ~IsPanic(res)
        /\ res.result \subseteq U32Bits
        /\ shift_amount = 0 => (res.result = rm /\ res.carry = carry)
        /\ shift_amount \in 1..32 =>
             /\ \A j \in 0..31 :
                  Bit(res.result, j) <=>
                      (j >= shift_amount /\ Bit(rm, j - shift_amount))
             /\ res.carry <=> Bit(rm, 32 - shift_amount)
        /\ shift_amount > 32 => (res.result = {} /\ res.carry = FALSE)

C5_Witness ==
    /\ ShiftDone /\ kind = "Lsl" /\ shift_amount = 32 /\ rm = {0}
    /\ res.result = {} /\ res.carry

\* C6: LSR by 0 is LSR#32: result 0 and carry_out = bit 31, as for amount
\* 32; by 1..32 the value divided by 2^amount with carry_out = bit
\* (amount-1); by more than 32 result 0 and carry_out false.
C6_Lsr ==
    (ShiftDone /\ kind = "Lsr") =>
        /\ ~IsPanic(res)
        /\ res.result \subseteq U32Bits
        /\ shift_amount = 0 =>
             /\ res.result = {} /\ (res.carry <=> Bit(rm, 31))
             /\ LET r32 == shift("Lsr", 32, rm, carry)
                IN  r32.result = res.result /\ r32.carry = res.carry
        /\ shift_amount \in 1..32 =>
             /\ \A j \in 0..31 :
                  Bit(res.result, j) <=>
                      (j + shift_amount <= 31 /\ Bit(rm, j + shift_amount))
             /\ res.carry <=> Bit(rm, shift_amount - 1)
        /\ shift_amount > 32 => (res.result = {} /\ res.carry = FALSE)

C6_Witness ==
    /\ ShiftDone /\ kind = "Lsr" /\ shift_amount = 0 /\ rm = U32Bits
    /\ res.result = {} /\ res.carry

\* C7: ASR by 1..31 is the sign-extending right shift with carry_out = bit
\* (amount-1); by 0 or by 32 and more every result bit and carry_out equal
\* bit 31 of the value.
C7_Asr ==
    (ShiftDone /\ kind = "Asr") =>
        /\ ~IsPanic(res)
        /\ res.result \subseteq U32Bits
        /\ shift_amount \in 1..31 =>
             /\ \A j \in 0..31 :
                  Bit(res.result, j) <=>
                      (IF j + shift_amount <= 31 THEN Bit(rm, j + shift_amount)
                       ELSE Bit(rm, 31))
             /\ res.carry <=> Bit(rm, shift_amount - 1)
        /\ shift_amount \notin 1..31 =>
             /\ res.result = (IF Bit(rm, 31) THEN U32Bits ELSE {})
             /\ res.carry <=> Bit(rm, 31)

C7_Witness ==
    /\ ShiftDone /\ kind = "Asr" /\ shift_amount = 4 /\ rm = {31}
    /\ res.result = 27..31 /\ ~res.carry

C7_WitnessSaturated ==
    /\ ShiftDone /\ kind = "Asr" /\ shift_amount = 0 /\ rm = {31}
    /\ res.result = U32Bits /\ res.carry

\* C8: shift returns a result for every kind, amount, value and carry_in:
\* the ROR arm's reduced amount is in 0..32, its unreachable arm is never
\* taken, and every bit index handed to a bit read is in 0..31.
C8_ShiftTotal ==
    ShiftDone =>
        /\ ~IsPanic(res)
        /\ DOMAIN res = DOMAIN Default
        /\ res.result \subseteq U32Bits /\ res.carry \in BOOLEAN
        /\ res.bit_idx = NoBit \/ res.bit_idx \in 0..31
        /\ kind = "Ror" => ror_new_shift_amount(shift_amount) \in 0..32
        /\ pc = "compared" =>
             (~IsPanic(res_flip) /\ res_flip.bit_idx \in {NoBit} \cup 0..31)

C8_Witness ==
    /\ ShiftDone /\ kind = "Ror" /\ shift_amount > 64 /\ shift_amount % 32 = 6
    /\ ~IsPanic(res) /\ res.bit_idx = 5

\* C9: for every opcode in 0x0..0xF the decoded mnemonic's numeric code is
\* the opcode, all 16 mnemonics are decoded from some opcode, and the family
\* is Logical exactly for AND, EOR, TST, TEQ, ORR, MOV, BIC, MVN and
\* Arithmetic for the other eight.
C9_Classify ==
    (fn = "alu" /\ pc \in {"decoded", "returned"} /\ alu_op_code \in 0..15) =>
        /\ Discriminant(instr) = alu_op_code
        /\ \A i \in 1..16 : \E c \in 0..15 : ArmModeAluInstr_from(c) = Mnemonics[i]
        /\ pc = "returned" =>
             /\ ai_kind = "Logical" <=>
                  alu_op_code \in {0, 1, 8, 9, 12, 13, 14, 15}
             /\ ai_kind = "Arithmetic" <=>
                  alu_op_code \in {2, 3, 4, 5, 6, 7, 10, 11}

C9_Witness ==
    /\ fn = "alu" /\ pc = "returned" /\ alu_op_code = 9
    /\ instr = "Teq" /\ ai_kind = "Logical"

C9_WitnessSub ==
    /\ fn = "alu" /\ pc = "returned" /\ alu_op_code = 2
    /\ instr = "Sub" /\ ai_kind = "Arithmetic"

\* C10: two calls that differ only in carry_in return the same result
\* unless the call is ROR by 0, and the same carry_out unless it is LSL by
\* 0; overflow, sign and zero are false in both returned records.
C10_CarryInNonInterference ==
    (fn = "shift" /\ pc = "compared") =>
        /\ ~IsPanic(res) /\ ~IsPanic(res_flip)
        /\ res.result = res_flip.result \/ (kind = "Ror" /\ shift_amount = 0)
        /\ res.carry = res_flip.carry \/ (kind = "Lsl" /\ shift_amount = 0)
        /\ \A r \in {res, res_flip} : ~r.overflow /\ ~r.sign /\ ~r.zero

C10_Witness ==
    /\ fn = "shift" /\ pc = "compared" /\ kind = "Lsr" /\ shift_amount = 0
    /\ rm = {31} /\ carry = FALSE
    /\ res.carry /\ res_flip.carry /\ res.result = res_flip.result

C10_WitnessDiffers ==
    /\ fn = "shift" /\ pc = "compared" /\ kind = "Ror" /\ shift_amount = 0
    /\ res.result # res_flip.result /\ res.carry = res_flip.carry
====
